---- MODULE Spec2Model ----
(***************************************************************************)
(* downloads-detox: scan -> plan -> apply -> rollback over a filesystem.   *)
(*                                                                         *)
(* The filesystem is a function from the paths that exist to the file      *)
(* found there.  A path is [dir, name]: dir is SourceDir (the flat source  *)
(* directory) or the name of an entry directly under the target base; a    *)
(* name is [base, ctr, ext], the file name base ++ "_c1" ++ "_c2".. ++ ext,*)
(* so that Path.stem is (base, ctr), Path.suffix is ext and the f-string   *)
(* f"{stem}_{counter}{suffix}" appends one counter to ctr.                 *)
(***************************************************************************)
EXTENDS Integers, Sequences, FiniteSets, TLC

\* ---------------------------------------------------------------- bounds
MaxFiles == 2      \* files in the source directory
MaxPre == 2        \* files and empty directories already in the target tree
MaxSize == 1       \* file sizes are 1..MaxSize
MaxEnv == 1        \* external changes of the filesystem between the runs
MaxRuns == 3       \* invocations of apply and rollback
MaxFaults == 1     \* moves and rmdirs that raise, reads for a checksum that fail

\* ------------------------------------------------------------ scan.py
SourceDir == "Downloads"

\* CATEGORIES of scan.py, in dict order, then the fallback of get_category.
CategoryOrder ==
    <<"Documents", "Images", "Videos", "Archives", "Code", "Apps", "Audio", "Other">>

CATEGORIES ==
    [c \in {"Documents", "Images", "Videos", "Archives", "Code", "Apps", "Audio"} |->
       CASE c = "Documents" -> {".pdf", ".doc", ".docx", ".txt", ".rtf", ".odt",
                                ".xls", ".xlsx", ".ppt", ".pptx"}
         [] c = "Images"    -> {".jpg", ".jpeg", ".png", ".gif", ".bmp", ".svg",
                                ".webp", ".ico", ".tiff", ".heic"}
         [] c = "Videos"    -> {".mp4", ".mov", ".avi", ".mkv", ".wmv", ".flv",
                                ".webm", ".m4v"}
         [] c = "Archives"  -> {".zip", ".tar", ".gz", ".rar", ".7z", ".bz2",
                                ".xz", ".dmg"}
         [] c = "Code"      -> {".py", ".js", ".ts", ".jsx", ".tsx", ".java", ".cpp",
                                ".c", ".h", ".go", ".rs", ".rb", ".php", ".swift"}
         [] c = "Apps"      -> {".app", ".pkg", ".dmg", ".exe", ".msi"}
         [] c = "Audio"     -> {".mp3", ".wav", ".flac", ".aac", ".ogg", ".m4a"}]

\* str.lower() on the extensions the model draws.
Lower(ext) ==
    CASE ext = ".PDF" -> ".pdf"
      [] ext = ".JPG" -> ".jpg"
      [] OTHER -> ext

RECURSIVE FirstCategory(_, _)
FirstCategory(e, i) ==
    IF i > Len(CategoryOrder) - 1 THEN "Other"
    ELSE IF e \in CATEGORIES[CategoryOrder[i]] THEN CategoryOrder[i]
    ELSE FirstCategory(e, i + 1)

get_category(ext) == FirstCategory(Lower(ext), 1)

\* ------------------------------------------------------- the filesystem
Name(b, c, e) == [base |-> b, ctr |-> c, ext |-> e]
PathOf(d, n) == [dir |-> d, name |-> n]

\* The names the source directory draws its files from: a.pdf, a_1.pdf,
\* b.JPG.
SourceNames ==
    { Name("a", <<>>, ".pdf"), Name("a", <<1>>, ".pdf"), Name("b", <<>>, ".JPG") }

\* The paths of the target tree that may hold a file before the first plan.
PrePaths ==
    { PathOf("Documents", Name("a", <<>>, ".pdf")),
      PathOf("Documents", Name("a", <<1>>, ".pdf")) }

\* The names under the target base that may be a regular file.
BlockedNames == {"Images"}

\* The names under the target base that may be a directory no category has
\* the name of.
UnrelatedDirs == {"Projects"}

File(i, s) == [id |-> i, size |-> s, whole |-> TRUE]

\* Path.exists(): a file is at the path.
Exists(f, p) == p \in DOMAIN f

EmptyStats == [success |-> 0, failed |-> 0, skipped |-> 0]

\* The log dictionary apply_plan and rollback_operations start from;
\* executed_at is the invocation's number.
NewLog(t, d) ==
    [executed_at |-> t, dry_run |-> d, operations |-> <<>>, stats |-> EmptyStats]

\* No log on disk (or none in memory): no invocation has number 0.
NoLog == NewLog(0, FALSE)

NoRun ==
    [kind |-> "none", dry_run |-> FALSE, entry |-> "main", cleanup |-> FALSE,
     verify_hash |-> FALSE]

\* A checksum as the records carry it: none (no "sha256" key), the digest of
\* a content, or the "ERROR:.." string of compute_file_hash, which names the
\* path that could not be read.
NoPath == PathOf("", Name("", <<>>, ""))

NoHash == [kind |-> "none", id |-> NoPath, size |-> 0, whole |-> FALSE, path |-> NoPath]

\* No shutil.move is under way.
NoMove == [source |-> NoPath, target |-> NoPath, stage |-> "none", file |-> File(NoPath, 0)]

\* compute_file_hash(filepath): SHA256 of the content, taken to tell any two
\* contents apart; the error string when the file cannot be read.
compute_file_hash(f, p, readable) ==
    IF readable
    THEN [NoHash EXCEPT !.kind = "digest", !.id = f[p].id, !.size = f[p].size,
                        !.whole = f[p].whole]
    ELSE [NoHash EXCEPT !.kind = "error", !.path = p]

VARIABLES
    include_hash,  \* scan.py is run with --hash
    fs,          \* the files: path -> file, for the paths that hold a file
    tdirs,       \* entries directly under the target base: name -> "dir" | "file"
    baseExists,  \* the target base directory exists
    pc,          \* "start", "scanned", "idle" (between runs), "applying", "rolling"
    scan,        \* scan_data["files"]: category -> sequence of file_info
    plan,        \* plan["operations"]
    planFs,      \* history: the files at the time generate_plan ran
    run,         \* the running (or last) invocation: kind, dry_run, entry, started
    log,         \* the log the running invocation is building in memory
    idx,         \* apply: index of the next operation of the plan
    todo,        \* rollback: the operations still to undo, next first
    logFile,     \* the execution log on disk (apply's --output), or NoLog
    rbLogFile,   \* the rollback log on disk (rollback's --output), or NoLog
    exit,        \* how the last invocation ended: "none", "0", "1", "killed"
    runs,        \* invocations so far; the clock behind executed_at
    envCount,    \* external changes so far
    faults,      \* moves and rmdirs that raised so far
    pre,         \* history: the filesystem when the running invocation started
    preApply,    \* history: the files when the last real apply started
    trail,       \* history: what happened since the last real apply started
    mv           \* the shutil.move under way, step by step: source, target,
                 \* stage and the file being moved; NoMove when none is

vars == <<include_hash, fs, tdirs, baseExists, pc, scan, plan, planFs, run, log, idx, todo,
          logFile, rbLogFile, exit, runs, envCount, faults, pre, preApply, trail, mv>>

pipeline == <<include_hash, scan, plan, planFs>>
disk == <<fs, tdirs, baseExists>>
budget == <<envCount, faults>>
process == <<run, log, idx, todo, logFile, rbLogFile, exit, runs, pre, preApply, trail>>

\* ------------------------------------------------------- scan_directory
RECURSIVE Perms(_)
Perms(S) ==
    IF S = {} THEN {<<>>}
    ELSE UNION { { <<x>> \o q : q \in Perms(S \ {x}) } : x \in S }

\* The file_info of scan_directory; sha256 is NoHash for the key left out.
file_info(f, p, hashed, readable) ==
    [name |-> p.name, path |-> p, size |-> f[p].size,
     category |-> get_category(p.name.ext),
     sha256 |-> IF hashed THEN compute_file_hash(f, p, readable) ELSE NoHash]

\* The results of scan_directory: every regular file directly in the source
\* directory in the bucket of its category, each bucket in the order
\* iterdir() gave, which is any order; unreadable are the files whose
\* checksum could not be read.
ScanResults(f, hashed, unreadable) ==
    LET items == { p \in DOMAIN f : p.dir = SourceDir }
        Cats == { CategoryOrder[i] : i \in 1..Len(CategoryOrder) }
        InCat(c, p) == get_category(p.name.ext) = c
        Bucket(o, c) ==
            LET sel == SelectSeq(o, LAMBDA p : InCat(c, p))
            IN  [i \in 1..Len(sel) |->
                    file_info(f, sel[i], hashed, sel[i] \notin unreadable)]
    IN  { [c \in Cats |-> Bucket(o, c)] : o \in Perms(items) }

ScanDirectory ==
    /\ pc = "start"
    /\ \E unreadable \in SUBSET { p \in DOMAIN fs : p.dir = SourceDir /\ include_hash } :
         /\ faults' = faults + Cardinality(unreadable)
         /\ faults' <= MaxFaults
         /\ \E r \in ScanResults(fs, include_hash, unreadable) : scan' = r
    /\ pc' = "scanned"
    /\ UNCHANGED <<mv, include_hash, disk, plan, planFs, process, envCount>>

\* --------------------------------------------------------- generate_plan
\* Mutant of ResolveTarget: the counter is bumped before it is used.
RECURSIVE ResolveTarget_bumps_first(_, _, _, _, _)
ResolveTarget_bumps_first(f, target_dir, original, target, counter) ==
    IF Exists(f, PathOf(target_dir, target))
    THEN ResolveTarget_bumps_first(f, target_dir, original,
                       [original EXCEPT !.ctr = Append(original.ctr, counter + 1)],
                       counter + 1)
    ELSE target

\* The while loop of generate_plan: the first of name, stem_1, stem_2, ..
\* that does not exist on the filesystem.
RECURSIVE ResolveTarget(_, _, _, _, _)
ResolveTarget(f, target_dir, original, target, counter) ==
    IF Exists(f, PathOf(target_dir, target))
    THEN ResolveTarget(f, target_dir, original,
                       [original EXCEPT !.ctr = Append(original.ctr, counter)],
                       counter + 1)
    ELSE target

operation(f, info) ==
    [source |-> info.path,
     target |-> PathOf(info.category,
                       ResolveTarget(f, info.category, info.name, info.name, 1)),
     category |-> info.category,
     size |-> info.size,
     sha256 |-> info.sha256]

\* Mutant of PlanFrom: one operation for each category that has files.
RECURSIVE PlanFrom_one_per_category(_, _, _)
PlanFrom_one_per_category(f, sc, i) ==
    IF i > Len(CategoryOrder) THEN <<>>
    ELSE LET file_list == sc[CategoryOrder[i]]
         IN  (IF file_list = <<>> THEN <<>> ELSE <<operation(f, file_list[1])>>)
             \o PlanFrom_one_per_category(f, sc, i + 1)

\* The two loops of generate_plan: over the categories of the scan in the
\* order of its dictionary, and over the files of each.
RECURSIVE PlanFrom(_, _, _)
PlanFrom(f, sc, i) ==
    IF i > Len(CategoryOrder) THEN <<>>
    ELSE LET file_list == sc[CategoryOrder[i]]
         IN  [k \in 1..Len(file_list) |-> operation(f, file_list[k])]
             \o PlanFrom(f, sc, i + 1)

generate_plan(f, sc) == PlanFrom(f, sc, 1)

GeneratePlan ==
    /\ pc = "scanned"
    /\ plan' = generate_plan(fs, scan)
    /\ planFs' = fs
    /\ pc' = "idle"
    /\ UNCHANGED <<mv, include_hash, disk, scan, process, budget>>

\* ----------------------------------------------------------- shutil.move
\* shutil.move(src, dst) of a file src to a free path dst: os.rename, and when
\* that raises, copy2 to dst and then os.unlink(src).  It returns, or raises
\* with nothing changed (neither rename nor the copy could start), with a
\* part of the file at dst (the copy broke off) or with the whole file at
\* both paths (the copy was made and the unlink raised).
MoveOutcomes(size) ==
    { [kind |-> k, bytes |-> size] : k \in {"moved", "unchanged", "duplicate"} }
    \cup { [kind |-> "partial", bytes |-> b] : b \in 0..(size - 1) }

Without(f, p) == [q \in DOMAIN f \ {p} |-> f[q]]
With(f, p, x) == [q \in DOMAIN f \cup {p} |-> IF q = p THEN x ELSE f[q]]

\* Mutant of shutil_move: the file is copied and the source is left behind.
shutil_move_copies(f, src, dst, m) ==
    CASE m.kind = "unchanged" -> f
      [] m.kind = "partial"   ->
            With(f, dst, [id |-> f[src].id, size |-> m.bytes, whole |-> FALSE])
      [] OTHER -> With(f, dst, f[src])

shutil_move(f, src, dst, m) ==
    CASE m.kind = "moved"     -> With(Without(f, src), dst, f[src])
      [] m.kind = "unchanged" -> f
      [] m.kind = "partial"   ->
            With(f, dst, [id |-> f[src].id, size |-> m.bytes, whole |-> FALSE])
      [] m.kind = "duplicate" -> With(f, dst, f[src])

\* Path.mkdir(parents=True, exist_ok=True) of target_base/d: FileExistsError
\* when a regular file is there.
MkdirRaises(td, d) == d \in DOMAIN td /\ td[d] = "file"
Mkdir(td, D) == [d \in DOMAIN td \cup D |-> IF d \in D THEN "dir" ELSE td[d]]

Snapshot == [fs |-> fs, tdirs |-> tdirs, baseExists |-> baseExists]

Bump(l, field) == [l EXCEPT !.stats[field] = @ + 1]
Record(l, result) == [l EXCEPT !.operations = Append(@, result)]

\* ------------------------------------------------------------- apply.py
PlanCategories == { plan[i].category : i \in 1..Len(plan) }

\* Mutant of create_category_dirs: the directories are made in a dry run too.
create_category_dirs_always(td, cats, dry_run) == Mkdir(td, cats)

\* The loop over the categories of apply_plan where no mkdir raises: a dry
\* run only reports.
create_category_dirs(td, cats, dry_run) ==
    IF dry_run THEN td ELSE Mkdir(td, cats)

\* main of apply.py up to the loop of apply_plan: the log is initialised and,
\* in a real run, every category directory of the plan is made, in the order
\* of a set.  A mkdir that raises is outside any try of apply_plan: main
\* prints the error and returns 1 without writing a log.  --verify-hash is
\* drawn when the plan carries checksums: apply_plan reads the flag only
\* together with the "sha256" key of an operation.
ApplyStart ==
    /\ pc = "idle"
    /\ runs < MaxRuns
    /\ \E d \in BOOLEAN, v \in BOOLEAN :
         LET blocked == { c \in PlanCategories : MkdirRaises(tdirs, c) }
         IN  /\ v => include_hash
             /\ run' = [kind |-> "apply", dry_run |-> d, entry |-> "main",
                        cleanup |-> FALSE, verify_hash |-> v]
             /\ log' = NewLog(runs + 1, d)
             /\ IF d \/ blocked = {}
                THEN /\ tdirs' = create_category_dirs(tdirs, PlanCategories, d)
                     /\ baseExists' = (baseExists \/ tdirs' # <<>>)
                     /\ fs' = fs
                     /\ pc' = "applying"
                     /\ exit' = "none"
                     /\ trail' = IF d THEN trail ELSE <<>>
                ELSE /\ \E made \in SUBSET (PlanCategories \ blocked) :
                          tdirs' = Mkdir(tdirs, made)
                     /\ UNCHANGED <<fs, baseExists>>
                     /\ pc' = "idle"
                     /\ exit' = "1"
                     /\ trail' = <<"apply_raised">>
             /\ preApply' = IF d THEN preApply ELSE fs
    /\ runs' = runs + 1
    /\ idx' = 1
    /\ pre' = Snapshot
    /\ UNCHANGED <<mv, pipeline, todo, logFile, rbLogFile, budget>>

\* The result dictionary of a pass; hash_verified is "unset" for the key
\* left out.
ApplyResult(op, status, reason) ==
    [source |-> op.source, target |-> op.target, category |-> op.category,
     status |-> status, reason |-> reason, hash_verified |-> "unset"]

\* Mutant of after_move: a checksum that does not match makes the operation
\* failed.
after_move_mismatch_fails(l, op, verify_hash, new_hash) ==
    IF verify_hash /\ op.sha256 # NoHash /\ new_hash # op.sha256
    THEN Record(Bump(l, "failed"), ApplyResult(op, "failed", "Hash mismatch"))
    ELSE Record(Bump(l, "success"),
                [ApplyResult(op, "success", "") EXCEPT !.hash_verified =
                    IF verify_hash /\ op.sha256 # NoHash THEN "true" ELSE "unset"])

\* apply_plan from the return of shutil.move to the end of the pass: the
\* status is success; when asked to, and when the operation has a checksum,
\* the checksum of the destination is compared with it and the outcome noted.
after_move(l, op, verify_hash, new_hash) ==
    Record(Bump(l, "success"),
           [ApplyResult(op, "success", "") EXCEPT !.hash_verified =
               IF verify_hash /\ op.sha256 # NoHash
               THEN (IF new_hash = op.sha256 THEN "true" ELSE "false")
               ELSE "unset"])

\* Mutant of apply_skip_reason: the destination is not looked at.
apply_skip_reason_source_only(f, source, target) ==
    IF ~Exists(f, source) THEN "source not found" ELSE ""

\* Mutant of apply_skip_reason: the destination is looked at first.
apply_skip_reason_target_first(f, source, target) ==
    IF Exists(f, target) THEN "target exists"
    ELSE IF ~Exists(f, source) THEN "source not found"
    ELSE ""

\* The two checks that open a pass of the loop of apply_plan: the reason to
\* skip the operation, "" when there is none.
apply_skip_reason(f, source, target) ==
    IF ~Exists(f, source) THEN "source not found"
    ELSE IF Exists(f, target) THEN "target exists"
    ELSE ""

\* One pass of the loop of apply_plan over plan["operations"]; m is what
\* shutil.move does and readable whether the destination can be read for its
\* checksum.
apply_operation(f, td, l, op, dry_run, verify_hash, m, readable) ==
    IF apply_skip_reason(f, op.source, op.target) # ""
    THEN [fs |-> f, tdirs |-> td,
          log |-> Bump(Record(l, ApplyResult(op, "skipped",
                                   apply_skip_reason(f, op.source, op.target))),
                       "skipped")]
    ELSE IF dry_run
    THEN [fs |-> f, tdirs |-> td,
          log |-> Record(Bump(l, "success"), ApplyResult(op, "dry_run", ""))]
    ELSE IF MkdirRaises(td, op.target.dir)
    THEN [fs |-> f, tdirs |-> td,
          log |-> Record(Bump(l, "failed"), ApplyResult(op, "failed", "mkdir"))]
    ELSE IF m.kind = "moved"
    THEN LET moved == shutil_move(f, op.source, op.target, m)
         IN  [fs |-> moved,
              tdirs |-> Mkdir(td, {op.target.dir}),
              log |-> after_move(l, op, verify_hash,
                                 compute_file_hash(moved, op.target, readable))]
    ELSE [fs |-> shutil_move(f, op.source, op.target, m),
          tdirs |-> Mkdir(td, {op.target.dir}),
          log |-> Record(Bump(l, "failed"), ApplyResult(op, "failed", m.kind))]

\* The loop of apply_plan over the operations ops, from the files f, the
\* entries td and the log l, when no move raises and every checksum is read:
\* the log it ends with.
RECURSIVE apply_plan(_, _, _, _, _, _)
apply_plan(f, td, l, ops, dry_run, verify_hash) ==
    IF ops = <<>> THEN l
    ELSE LET r == apply_operation(f, td, l, Head(ops), dry_run, verify_hash,
                                  [kind |-> "moved", bytes |-> Head(ops).size], TRUE)
         IN  apply_plan(r.fs, r.tdirs, r.log, Tail(ops), dry_run, verify_hash)

\* The pass gets to shutil.move.
reaches_move(f, td, op, dry_run) ==
    /\ apply_skip_reason(f, op.source, op.target) = ""
    /\ ~dry_run
    /\ ~MkdirRaises(td, op.target.dir)

\* A read for a checksum fails only where one is made: after a move that
\* returned, with --verify-hash and a checksum in the operation.
ApplyOp ==
    /\ pc = "applying"
    /\ idx <= Len(plan)
    /\ \E m \in MoveOutcomes(plan[idx].size), readable \in BOOLEAN :
         LET r == apply_operation(fs, tdirs, log, plan[idx], run.dry_run,
                                  run.verify_hash, m, readable)
             reads == /\ reaches_move(fs, tdirs, plan[idx], run.dry_run)
                      /\ m.kind = "moved"
                      /\ run.verify_hash
                      /\ plan[idx].sha256 # NoHash
         IN  /\ ~readable => reads
             /\ fs' = r.fs
             /\ tdirs' = r.tdirs
             /\ log' = r.log
             /\ faults' = faults + (r.log.stats.failed - log.stats.failed)
                                  + (IF readable THEN 0 ELSE 1)
             /\ faults' <= MaxFaults
    /\ idx' = idx + 1
    /\ UNCHANGED <<mv, baseExists, pc, pipeline, run, todo, logFile, rbLogFile, exit,
                   runs, envCount, pre, preApply, trail>>

AllSuccess(l) ==
    \A i \in 1..Len(l.operations) : l.operations[i].status = "success"

\* apply_plan returns; main writes the log to --output and returns 1 when an
\* operation failed, else 0.
ApplyFinish ==
    /\ pc = "applying"
    /\ idx > Len(plan)
    /\ logFile' = log
    /\ exit' = IF log.stats.failed = 0 THEN "0" ELSE "1"
    /\ pc' = "idle"
    /\ trail' = IF run.dry_run THEN Append(trail, "apply_dry")
                ELSE IF AllSuccess(log) THEN <<"apply_clean">>
                ELSE <<"apply">>
    /\ UNCHANGED <<mv, disk, pipeline, run, log, idx, todo, rbLogFile, runs, budget,
                   pre, preApply>>

\* The process is terminated inside apply_plan: what it held in memory is
\* lost (log keeps it here as history), the files stay as they are.  Nothing
\* is run after it here.
Interrupt ==
    /\ pc = "applying"
    /\ pc' = "killed"
    /\ exit' = "killed"
    /\ UNCHANGED <<mv, disk, pipeline, run, log, idx, todo, logFile, rbLogFile, runs,
                   budget, pre, preApply, trail>>

\* ---------------------------------------------------------- rollback.py
\* Mutant of Reverse: the operations are undone in the order of the log.
Forward(q) == q

\* reversed(successful_ops)
Reverse(q) == [i \in 1..Len(q) |-> q[Len(q) + 1 - i]]

\* Mutant of successful_ops: every operation of the log is taken.
successful_ops_unfiltered(l) == l.operations

\* The list comprehension of rollback_operations: the operations of the log
\* with status success, in the order of the log.
successful_ops(l) == SelectSeq(l.operations, LAMBDA op : op.status = "success")

\* Mutant of from_dry_run: no log is turned away.
from_dry_run_never(l) == FALSE

\* main of rollback.py: log.get("dry_run"), the log is that of a dry run.
from_dry_run(l) == l.dry_run

\* rollback.py starts on the execution log on disk: through main, which
\* returns 0 at once on a log of a dry run, or by a call of
\* rollback_operations on the log read (drawn here for the logs main turns
\* away: on any other log the call does what main does without --cleanup).
\* The log file is there and well formed: main's FileNotFoundError and a
\* malformed document are not drawn.
RollbackStart ==
    /\ pc = "idle"
    /\ runs < MaxRuns
    /\ logFile # NoLog
    /\ \E d \in BOOLEAN, e \in {"main", "call"}, c \in BOOLEAN :
         /\ e = "call" => (~c /\ logFile.dry_run)
         /\ run' = [kind |-> "rollback", dry_run |-> d, entry |-> e, cleanup |-> c,
                    verify_hash |-> FALSE]
         /\ IF e = "main" /\ from_dry_run(logFile)
            THEN /\ pc' = "idle"
                 /\ exit' = "0"
                 /\ log' = NoLog
                 /\ todo' = <<>>
                 /\ trail' = Append(trail, "rollback_refused")
            ELSE /\ pc' = "rolling"
                 /\ exit' = "none"
                 /\ log' = NewLog(runs + 1, d)
                 /\ todo' = Reverse(successful_ops(logFile))
                 /\ trail' = trail
    /\ runs' = runs + 1
    /\ pre' = Snapshot
    /\ UNCHANGED <<mv, disk, pipeline, idx, logFile, rbLogFile, budget, preApply>>

RollbackResult(source, target, status, reason) ==
    [source |-> source, target |-> target, status |-> status, reason |-> reason]

\* Mutant of rollback_skip_reason: the original location is not looked at.
rollback_skip_reason_source_only(f, source, target) ==
    IF ~Exists(f, source) THEN "file not found at target location" ELSE ""

\* Mutant of rollback_skip_reason: the two paths are taken the wrong way round.
rollback_skip_reason_swapped(f, source, target) ==
    IF ~Exists(f, target) THEN "file not found at target location"
    ELSE IF Exists(f, source) THEN "original location occupied"
    ELSE ""

\* The two checks that open a pass of the loop of rollback_operations: the
\* reason to skip the operation, "" when there is none.
rollback_skip_reason(f, source, target) ==
    IF ~Exists(f, source) THEN "file not found at target location"
    ELSE IF Exists(f, target) THEN "original location occupied"
    ELSE ""

\* One pass of the loop of rollback_operations: op is an operation of the
\* execution log, undone from op.target (source) to op.source (target).
\* target.parent is the source directory, which exists.
rollback_operation(f, l, op, dry_run, m) ==
    LET source == op.target
        target == op.source
    IN  IF rollback_skip_reason(f, source, target) # ""
        THEN [fs |-> f,
              log |-> Bump(Record(l, RollbackResult(source, target, "skipped",
                                     rollback_skip_reason(f, source, target))),
                           "skipped")]
        ELSE IF dry_run
        THEN [fs |-> f,
              log |-> Record(Bump(l, "success"),
                             RollbackResult(source, target, "dry_run", ""))]
        ELSE IF m.kind = "moved"
        THEN [fs |-> shutil_move(f, source, target, m),
              log |-> Record(Bump(l, "success"),
                             RollbackResult(source, target, "success", ""))]
        ELSE [fs |-> shutil_move(f, source, target, m),
              log |-> Record(Bump(l, "failed"),
                             RollbackResult(source, target, "failed", m.kind))]

RollbackOp ==
    /\ pc = "rolling"
    /\ todo # <<>>
    /\ \E m \in MoveOutcomes(IF Exists(fs, Head(todo).target)
                             THEN fs[Head(todo).target].size ELSE 1) :
         LET r == rollback_operation(fs, log, Head(todo), run.dry_run, m)
         IN  /\ fs' = r.fs
             /\ log' = r.log
             /\ faults' = faults + r.log.stats.failed - log.stats.failed
             /\ faults' <= MaxFaults
    /\ todo' = Tail(todo)
    /\ UNCHANGED <<mv, tdirs, baseExists, pc, pipeline, run, idx, logFile, rbLogFile,
                   exit, runs, envCount, pre, preApply, trail>>

\* cleanup_empty_dirs(base_dir): iterdir() of a missing base raises; every
\* entry that is a directory and holds nothing is removed, unless rmdir
\* raises OSError, which is passed over.
EmptyDirs(f, td) ==
    { d \in DOMAIN td : td[d] = "dir" /\ \A p \in DOMAIN f : p.dir # d }

CleanupRaises == ~baseExists

Remove(td, D) == [d \in DOMAIN td \ D |-> td[d]]

NoFailure(l) ==
    \A i \in 1..Len(l.operations) : l.operations[i].status \in {"success", "skipped"}

\* rollback_operations returns.  Called directly, that is all; main runs the
\* cleanup when asked to (not in a dry run, and only when the rollback log
\* has an operation to take the target base from), writes the rollback log to
\* --output and returns 1 when an operation failed, else 0; when the cleanup
\* raises, main prints the error and returns 1 without writing the log.
RollbackFinish ==
    /\ pc = "rolling"
    /\ todo = <<>>
    /\ pc' = "idle"
    /\ LET cleaning == /\ run.entry = "main"
                       /\ run.cleanup
                       /\ ~run.dry_run
                       /\ log.operations # <<>>
           tag == IF run.dry_run THEN "rollback_dry"
                  ELSE IF NoFailure(log) THEN "rollback_clean"
                  ELSE "rollback"
       IN  /\ IF cleaning /\ ~CleanupRaises
              THEN \E kept \in SUBSET EmptyDirs(fs, tdirs) :
                      /\ tdirs' = Remove(tdirs, EmptyDirs(fs, tdirs) \ kept)
                      /\ faults' = faults + Cardinality(kept)
                      /\ faults' <= MaxFaults
              ELSE UNCHANGED <<tdirs, faults>>
           /\ IF run.entry = "call"
              THEN /\ exit' = "none"
                   /\ rbLogFile' = rbLogFile
              ELSE IF cleaning /\ CleanupRaises
              THEN /\ exit' = "1"
                   /\ rbLogFile' = rbLogFile
              ELSE /\ exit' = IF log.stats.failed = 0 THEN "0" ELSE "1"
                   /\ rbLogFile' = log
           /\ trail' = Append(trail, tag)
    /\ UNCHANGED <<mv, fs, baseExists, pipeline, run, log, idx, todo, logFile, runs,
                   envCount, pre, preApply>>

\* ------------------------------------------------------ the environment
\* Between the invocations, something else deletes a file the plan names or
\* puts a new file at a free path the plan names.
PlanPaths ==
    { plan[i].source : i \in 1..Len(plan) } \cup { plan[i].target : i \in 1..Len(plan) }

EnvDelete ==
    /\ pc = "idle"
    /\ envCount < MaxEnv
    /\ \E p \in PlanPaths \cap DOMAIN fs : fs' = Without(fs, p)
    /\ envCount' = envCount + 1
    /\ trail' = Append(trail, "env")
    /\ UNCHANGED <<mv, tdirs, baseExists, pc, pipeline, run, log, idx, todo, logFile,
                   rbLogFile, exit, runs, faults, pre, preApply>>

EnvCreate ==
    /\ pc = "idle"
    /\ envCount < MaxEnv
    /\ \E p \in PlanPaths \ DOMAIN fs, s \in 1..MaxSize :
         /\ p.dir = SourceDir \/ (p.dir \in DOMAIN tdirs /\ tdirs[p.dir] = "dir")
         /\ fs' = With(fs, p, File(PathOf("elsewhere", p.name), s))
    /\ envCount' = envCount + 1
    /\ trail' = Append(trail, "env")
    /\ UNCHANGED <<mv, tdirs, baseExists, pc, pipeline, run, log, idx, todo, logFile,
                   rbLogFile, exit, runs, faults, pre, preApply>>

\* Something else rewrites a file of the source directory that the plan names.
EnvModify ==
    /\ pc = "idle"
    /\ envCount < MaxEnv
    /\ \E p \in PlanPaths \cap DOMAIN fs, s \in 1..MaxSize :
         /\ p.dir = SourceDir
         /\ fs[p] # File(PathOf("rewritten", p.name), s)
         /\ fs' = [fs EXCEPT ![p] = File(PathOf("rewritten", p.name), s)]
    /\ envCount' = envCount + 1
    /\ trail' = Append(trail, "env")
    /\ UNCHANGED <<mv, tdirs, baseExists, pc, pipeline, run, log, idx, todo, logFile,
                   rbLogFile, exit, runs, faults, pre, preApply>>

\* Something else deletes the target base with all it holds.
EnvRemoveBase ==
    /\ pc = "idle"
    /\ envCount < MaxEnv
    /\ baseExists
    /\ fs' = [p \in { q \in DOMAIN fs : q.dir = SourceDir } |-> fs[p]]
    /\ tdirs' = <<>>
    /\ baseExists' = FALSE
    /\ envCount' = envCount + 1
    /\ trail' = Append(trail, "env")
    /\ UNCHANGED <<mv, pc, pipeline, run, log, idx, todo, logFile, rbLogFile, exit,
                   runs, faults, pre, preApply>>

\* ------------------------------------------------------------------ Init
\* Any set of at most MaxFiles distinct names in the source directory and at
\* most MaxPre files and empty directories in the target tree, of any sizes;
\* an entry under the target base is a directory, or a regular file that
\* holds nothing.
InitFs(src, held, sz) ==
    [p \in { PathOf(SourceDir, n) : n \in src } \cup held |-> File(p, sz[p])]

InitWith(max_pre, hashed) ==
    /\ include_hash = hashed
    /\ \E src \in SUBSET SourceNames, held \in SUBSET PrePaths :
         /\ Cardinality(src) <= MaxFiles
         /\ Cardinality(held) <= max_pre
         /\ \E sz \in [{ PathOf(SourceDir, n) : n \in src } \cup held -> 1..MaxSize] :
              fs = InitFs(src, held, sz)
         /\ \E blocked \in SUBSET (BlockedNames \ { p.dir : p \in held }),
               empty \in SUBSET UnrelatedDirs :
              /\ Cardinality(held) + Cardinality(empty) <= max_pre
              /\ tdirs = [d \in { p.dir : p \in held } \cup blocked \cup empty |->
                            IF d \in blocked THEN "file" ELSE "dir"]
         /\ baseExists \in IF held = {} /\ tdirs = <<>> THEN BOOLEAN ELSE {TRUE}
    /\ pc = "start"
    /\ scan = <<>>
    /\ plan = <<>>
    /\ planFs = <<>>
    /\ run = NoRun
    /\ log = NoLog
    /\ idx = 0
    /\ todo = <<>>
    /\ logFile = NoLog
    /\ rbLogFile = NoLog
    /\ exit = "none"
    /\ runs = 0
    /\ envCount = 0
    /\ faults = 0
    /\ pre = [fs |-> fs, tdirs |-> tdirs, baseExists |-> baseExists]
    /\ preApply = fs
    /\ trail = <<>>
    /\ mv = NoMove

\* The pipeline without checksums (scan.py without --hash).
Init == InitWith(MaxPre, FALSE)

\* The pipeline with checksums (scan.py --hash), on a target tree that holds
\* nothing yet.
InitHash == InitWith(0, TRUE)

Next ==
    \/ ScanDirectory
    \/ GeneratePlan
    \/ ApplyStart
    \/ ApplyOp
    \/ ApplyFinish
    \/ Interrupt
    \/ RollbackStart
    \/ RollbackOp
    \/ RollbackFinish
    \/ EnvDelete
    \/ EnvCreate
    \/ EnvRemoveBase

Spec == Init /\ [][Next]_vars

NextHash ==
    \/ Next
    \/ EnvModify

SpecHash == InitHash /\ [][NextHash]_vars

\* ------------------------------------------------ shutil.move, step by step
\* shutil.move(src, dst) of a file to a free path: os.rename(src, dst), which
\* moves the file in one step or raises OSError (another device, or anything
\* else); then copy2(src, dst), which creates dst and writes it chunk by
\* chunk (a chunk is a byte here); then os.unlink(src).  copy2 and unlink may
\* raise, and the process may be terminated between any two steps.

\* Mutant of copy_step: the source is removed as the copy starts.
copy_step_unlinks_first(f, m) ==
    LET so_far == IF Exists(f, m.target) THEN f[m.target].size ELSE 0 - 1
    IN  IF so_far + 1 < m.file.size
        THEN With(Without(f, m.source), m.target,
                  [id |-> m.file.id, size |-> so_far + 1, whole |-> FALSE])
        ELSE With(Without(f, m.source), m.target, m.file)

\* One step of copy2: dst is created empty, or takes one more chunk; with the
\* last chunk it is the whole file.
copy_step(f, m) ==
    LET so_far == IF Exists(f, m.target) THEN f[m.target].size ELSE 0 - 1
    IN  IF so_far + 1 < m.file.size
        THEN With(f, m.target, [id |-> m.file.id, size |-> so_far + 1, whole |-> FALSE])
        ELSE With(f, m.target, m.file)

StartMove(f, source, target) ==
    [source |-> source, target |-> target, stage |-> "rename", file |-> f[source]]

\* A pass of apply's loop that gets to shutil.move: the parent directory is
\* made and the move starts.
ApplyMoveBegin ==
    /\ pc = "applying"
    /\ idx <= Len(plan)
    /\ mv = NoMove
    /\ reaches_move(fs, tdirs, plan[idx], run.dry_run)
    /\ tdirs' = Mkdir(tdirs, {plan[idx].target.dir})
    /\ mv' = StartMove(fs, plan[idx].source, plan[idx].target)
    /\ UNCHANGED <<fs, baseExists, pc, pipeline, run, log, idx, todo, logFile,
                   rbLogFile, exit, runs, budget, pre, preApply, trail>>

\* Any other pass of apply's loop.
ApplyStill ==
    /\ pc = "applying"
    /\ idx <= Len(plan)
    /\ mv = NoMove
    /\ ~reaches_move(fs, tdirs, plan[idx], run.dry_run)
    /\ ApplyOp

\* A pass of rollback's loop that gets to shutil.move.
RollbackMoveBegin ==
    /\ pc = "rolling"
    /\ todo # <<>>
    /\ mv = NoMove
    /\ rollback_skip_reason(fs, Head(todo).target, Head(todo).source) = ""
    /\ ~run.dry_run
    /\ mv' = StartMove(fs, Head(todo).target, Head(todo).source)
    /\ UNCHANGED <<disk, pc, pipeline, run, log, idx, todo, logFile, rbLogFile,
                   exit, runs, budget, pre, preApply, trail>>

\* Any other pass of rollback's loop.
RollbackStill ==
    /\ pc = "rolling"
    /\ todo # <<>>
    /\ mv = NoMove
    /\ \/ rollback_skip_reason(fs, Head(todo).target, Head(todo).source) # ""
       \/ run.dry_run
    /\ RollbackOp

\* os.rename moves the file.
MoveRename ==
    /\ mv.stage = "rename"
    /\ pc \in {"applying", "rolling"}
    /\ fs' = With(Without(fs, mv.source), mv.target, fs[mv.source])
    /\ mv' = [mv EXCEPT !.stage = "returned"]
    /\ UNCHANGED <<tdirs, baseExists, pc, pipeline, run, log, idx, todo, logFile,
                   rbLogFile, exit, runs, budget, pre, preApply, trail>>

\* os.rename raises OSError: shutil.move goes on to copy.
MoveFallsBack ==
    /\ mv.stage = "rename"
    /\ pc \in {"applying", "rolling"}
    /\ mv' = [mv EXCEPT !.stage = "copy"]
    /\ UNCHANGED <<disk, pc, pipeline, run, log, idx, todo, logFile, rbLogFile,
                   exit, runs, budget, pre, preApply, trail>>

MoveCopy ==
    /\ mv.stage = "copy"
    /\ pc \in {"applying", "rolling"}
    /\ fs' = copy_step(fs, mv)
    /\ mv' = [mv EXCEPT !.stage = IF fs'[mv.target] = mv.file THEN "unlink" ELSE "copy"]
    /\ UNCHANGED <<tdirs, baseExists, pc, pipeline, run, log, idx, todo, logFile,
                   rbLogFile, exit, runs, budget, pre, preApply, trail>>

MoveUnlink ==
    /\ mv.stage = "unlink"
    /\ pc \in {"applying", "rolling"}
    /\ fs' = Without(fs, mv.source)
    /\ mv' = [mv EXCEPT !.stage = "returned"]
    /\ UNCHANGED <<tdirs, baseExists, pc, pipeline, run, log, idx, todo, logFile,
                   rbLogFile, exit, runs, budget, pre, preApply, trail>>

\* copy2 or os.unlink raises.
MoveRaise ==
    /\ mv.stage \in {"copy", "unlink"}
    /\ pc \in {"applying", "rolling"}
    /\ faults < MaxFaults
    /\ faults' = faults + 1
    /\ mv' = [mv EXCEPT !.stage = "raised"]
    /\ UNCHANGED <<disk, pc, pipeline, run, log, idx, todo, logFile, rbLogFile,
                   exit, runs, envCount, pre, preApply, trail>>

\* What shutil.move left behind when it raised, in the words of MoveOutcomes.
Raised(f, m) ==
    IF ~Exists(f, m.target) THEN "unchanged"
    ELSE IF f[m.target] = m.file THEN "duplicate"
    ELSE "partial"

\* shutil.move has returned or raised: the pass of apply's loop ends.
ApplyMoveEnd ==
    /\ pc = "applying"
    /\ mv.stage \in {"returned", "raised"}
    /\ log' = IF mv.stage = "returned"
              THEN after_move(log, plan[idx], run.verify_hash,
                              compute_file_hash(fs, plan[idx].target, TRUE))
              ELSE Record(Bump(log, "failed"),
                          ApplyResult(plan[idx], "failed", Raised(fs, mv)))
    /\ idx' = idx + 1
    /\ mv' = NoMove
    /\ UNCHANGED <<disk, pc, pipeline, run, todo, logFile, rbLogFile, exit, runs,
                   budget, pre, preApply, trail>>

\* shutil.move has returned or raised: the pass of rollback's loop ends.
RollbackMoveEnd ==
    /\ pc = "rolling"
    /\ mv.stage \in {"returned", "raised"}
    /\ log' = IF mv.stage = "returned"
              THEN Record(Bump(log, "success"),
                          RollbackResult(mv.source, mv.target, "success", ""))
              ELSE Record(Bump(log, "failed"),
                          RollbackResult(mv.source, mv.target, "failed", Raised(fs, mv)))
    /\ todo' = Tail(todo)
    /\ mv' = NoMove
    /\ UNCHANGED <<disk, pc, pipeline, run, idx, logFile, rbLogFile, exit, runs,
                   budget, pre, preApply, trail>>

\* The process is terminated inside shutil.move.
Crash ==
    /\ pc \in {"applying", "rolling"}
    /\ mv.stage \in {"rename", "copy", "unlink"}
    /\ pc' = "killed"
    /\ exit' = "killed"
    /\ UNCHANGED <<mv, disk, pipeline, run, log, idx, todo, logFile, rbLogFile,
                   runs, budget, pre, preApply, trail>>

NextMove ==
    \/ ScanDirectory
    \/ GeneratePlan
    \/ ApplyStart
    \/ ApplyStill
    \/ ApplyMoveBegin
    \/ ApplyMoveEnd
    \/ ApplyFinish
    \/ RollbackStart
    \/ RollbackStill
    \/ RollbackMoveBegin
    \/ RollbackMoveEnd
    \/ RollbackFinish
    \/ MoveRename
    \/ MoveFallsBack
    \/ MoveCopy
    \/ MoveUnlink
    \/ MoveRaise
    \/ Crash

SpecMove == Init /\ [][NextMove]_vars

\* ============================================================== claims
StatusCount(l, st) ==
    Cardinality({ i \in 1..Len(l.operations) : l.operations[i].status = st })

HasResult(l, st, reason) ==
    \E i \in 1..Len(l.operations) :
        l.operations[i].status = st /\ l.operations[i].reason = reason

\* A real apply has returned and written its log, and nothing has touched the
\* filesystem since.
RealApplyEnded ==
    /\ pc = "idle"
    /\ run.kind = "apply"
    /\ ~run.dry_run
    /\ logFile.executed_at = runs
    /\ trail \in {<<"apply">>, <<"apply_clean">>}

SourceUnchanged(op) ==
    /\ op.source \in DOMAIN pre.fs
    /\ op.source \in DOMAIN fs
    /\ fs[op.source] = pre.fs[op.source]

DestinationMatches(op) ==
    op.target \in DOMAIN fs /\ fs[op.target].size = op.size

\* C1: in every plan generate_plan produces, the destinations are pairwise
\* distinct and none is a path that held a file when the plan was made.
C1_DestinationsDistinctAndFree ==
    pc \notin {"start", "scanned"} =>
        /\ \A i, j \in 1..Len(plan) : i # j => plan[i].target # plan[j].target
        /\ \A i \in 1..Len(plan) : plan[i].target \notin DOMAIN planFs

\* C2, as claimed, for the runs in which no move raised: after a real apply,
\* for every operation exactly one of "the source exists unchanged" and "the
\* destination exists with matching size" holds, except for a skip with
\* "target exists", whose source is untouched; operations skipped for a
\* vanished source included.
C2_ExactlyOneOfSourceAndDestination ==
    (RealApplyEnded /\ logFile.stats.failed = 0) =>
        \A i \in 1..Len(plan) :
            IF logFile.operations[i].status = "skipped"
               /\ logFile.operations[i].reason = "target exists"
            THEN SourceUnchanged(plan[i])
            ELSE SourceUnchanged(plan[i]) # DestinationMatches(plan[i])

\* C2, amended: after a real apply, an operation with status success has no
\* file at its source and the file that was there at its destination; one
\* with status failed or skipped with "target exists" has its source
\* unchanged; one skipped with "source not found" had no source and has none.
C2_OutcomePerStatus ==
    RealApplyEnded =>
        \A i \in 1..Len(plan) :
            LET r == logFile.operations[i]
                op == plan[i]
            IN  /\ r.source = op.source /\ r.target = op.target
                /\ r.status \in {"success", "failed", "skipped"}
                /\ r.status = "success" =>
                      /\ op.source \notin DOMAIN fs
                      /\ op.source \in DOMAIN pre.fs
                      /\ op.target \in DOMAIN fs
                      /\ fs[op.target] = pre.fs[op.source]
                /\ r.status = "failed" => SourceUnchanged(op)
                /\ r.status = "skipped" =>
                      /\ r.reason \in {"target exists", "source not found"}
                      /\ r.reason = "target exists" => SourceUnchanged(op)
                      /\ r.reason = "source not found" =>
                            /\ op.source \notin DOMAIN pre.fs
                            /\ op.source \notin DOMAIN fs

C2_Witness ==
    /\ RealApplyEnded
    /\ HasResult(logFile, "success", "")
    /\ HasResult(logFile, "skipped", "source not found")

RollbackTags == {"rollback", "rollback_clean", "rollback_dry"}

\* C3: when a real apply ended with every operation success and nothing else
\* changes the filesystem, a real rollback in which no move raises puts every
\* file back at its source path and leaves no file at a plan destination; a
\* rollback after that, on the same log, changes no file and skips every
\* operation.
C3_RoundTrip ==
    /\ (pc = "idle" /\ trail = <<"apply_clean", "rollback_clean">>) =>
          \A i \in 1..Len(plan) :
              /\ plan[i].source \in DOMAIN fs
              /\ fs[plan[i].source] = preApply[plan[i].source]
              /\ plan[i].target \notin DOMAIN fs
    /\ (/\ pc = "idle"
        /\ Len(trail) = 3
        /\ SubSeq(trail, 1, 2) = <<"apply_clean", "rollback_clean">>
        /\ trail[3] \in RollbackTags) =>
          /\ fs = pre.fs
          /\ Len(log.operations) = Len(plan)
          /\ \A k \in 1..Len(log.operations) : log.operations[k].status = "skipped"

C3_Witness ==
    /\ pc = "idle"
    /\ Len(plan) = 2
    /\ trail = <<"apply_clean", "rollback_clean", "rollback_clean">>
    /\ rbLogFile.executed_at = runs

\* A step that is a pass of the loop of apply_plan.
ApplyPass == pc = "applying" /\ idx <= Len(plan) /\ idx' = idx + 1

DistinctTargets ==
    \A i, j \in 1..Len(plan) : i # j => plan[i].target # plan[j].target

\* C4, as claimed, for the plans whose destinations are pairwise distinct:
\* whenever the destination of the operation apply reaches is occupied, the
\* operation is skipped with "target exists" and no file changes.
C4_OccupiedMeansTargetExists ==
    [][(ApplyPass /\ DistinctTargets /\ plan[idx].target \in DOMAIN fs) =>
          /\ log'.operations[idx].status = "skipped"
          /\ log'.operations[idx].reason = "target exists"
          /\ fs' = fs]_vars

\* C4, amended: whenever the destination of the operation apply reaches is
\* occupied, the operation is skipped and no file changes; the reason is
\* "target exists" when the source exists and "source not found" when it does
\* not (the source is looked at first).
C4_OccupiedMeansSkipped ==
    [][(ApplyPass /\ plan[idx].target \in DOMAIN fs) =>
          /\ log'.operations[idx].status = "skipped"
          /\ log'.operations[idx].reason =
                IF plan[idx].source \in DOMAIN fs THEN "target exists"
                ELSE "source not found"
          /\ fs' = fs]_vars

C4_Witness ==
    /\ run.kind = "apply"
    /\ ~run.dry_run
    /\ HasResult(log, "skipped", "target exists")
    /\ HasResult(log, "success", "")

\* C5: a real apply that has ended (not killed) has written a log with one
\* result for every operation of the plan, whatever failed on the way.
C5_EveryApplyWritesItsLog ==
    (pc = "idle" /\ run.kind = "apply") =>
        /\ logFile.executed_at = runs
        /\ Len(logFile.operations) = Len(plan)

\* C6: during and after a dry-run apply the files, the entries under the
\* target base and the target base itself are as they were when it started.
C6_DryRunChangesNothing ==
    (/\ run.kind = "apply"
     /\ run.dry_run
     /\ \/ pc = "applying"
        \/ pc = "killed"
        \/ (pc = "idle" /\ trail # <<>> /\ trail[Len(trail)] = "apply_dry")) =>
        Snapshot = pre

C6_Witness ==
    /\ pc = "idle"
    /\ run.kind = "apply"
    /\ run.dry_run
    /\ trail # <<>> /\ trail[Len(trail)] = "apply_dry"
    /\ HasResult(logFile, "dry_run", "")
    /\ \E c \in PlanCategories : c \notin DOMAIN tdirs
    /\ ~baseExists

StatsMatch(l) ==
    \A st \in {"success", "failed", "skipped"} : l.stats[st] = StatusCount(l, st)

\* C7: in every log written or returned, by apply or by rollback, each of
\* stats.success, stats.failed and stats.skipped is the number of operations
\* of the log with that status.
C7_StatsMatchStatuses ==
    /\ StatsMatch(logFile)
    /\ StatsMatch(rbLogFile)
    /\ pc = "idle" => StatsMatch(log)

\* C8: when a real apply is killed after it moved files, the execution log on
\* disk is that run's and records every operation the run had completed.
C8_KilledApplyLeavesItsLog ==
    (pc = "killed" /\ ~run.dry_run /\ HasResult(log, "success", "")) =>
        /\ logFile.executed_at = log.executed_at
        /\ \A i \in 1..Len(log.operations) :
              /\ i <= Len(logFile.operations)
              /\ logFile.operations[i] = log.operations[i]

\* rollback_operations is running, or has returned and nothing ran since.
RollbackRan == run.kind = "rollback" /\ log.executed_at = runs

SuccessIndices ==
    { i \in 1..Len(logFile.operations) : logFile.operations[i].status = "success" }

KthFromLastSuccess(k) ==
    CHOOSE j \in SuccessIndices : Cardinality({ i \in SuccessIndices : i >= j }) = k

ChangedPaths ==
    { p \in DOMAIN fs \cup DOMAIN pre.fs :
        \/ p \notin DOMAIN fs
        \/ p \notin DOMAIN pre.fs
        \/ fs[p] # pre.fs[p] }

\* C9: the rollback log holds one result for each success operation of the
\* execution log and none for any other; the k-th result is the k-th-from-last
\* success operation with source and target swapped; and until something else
\* touches the filesystem no path has changed but the sources and targets of
\* the success operations.
C9_ReverseOrderOfSuccesses ==
    RollbackRan =>
        /\ Len(log.operations) + Len(todo) = Cardinality(SuccessIndices)
        /\ pc = "idle" => todo = <<>>
        /\ \A k \in 1..Len(log.operations) :
              /\ log.operations[k].source = logFile.operations[KthFromLastSuccess(k)].target
              /\ log.operations[k].target = logFile.operations[KthFromLastSuccess(k)].source
        /\ (pc = "rolling" \/ trail[Len(trail)] \in RollbackTags) =>
              ChangedPaths \subseteq
                 { logFile.operations[i].source : i \in SuccessIndices }
                 \cup { logFile.operations[i].target : i \in SuccessIndices }

C9_Witness ==
    /\ RollbackRan
    /\ pc = "idle"
    /\ ~run.dry_run
    /\ Len(log.operations) = 2
    /\ log.operations[1].target # log.operations[2].target
    /\ log.operations[1].status = "success"
    /\ log.operations[2].status = "success"

\* A step out of a state where rollback_operations has operations left: a
\* pass of its loop.
RollbackPass == pc = "rolling" /\ todo # <<>> /\ log' # log

\* C10: for the success operation rollback reaches, when no file is at the
\* applied destination the result is skipped with "file not found at target
\* location"; otherwise, when the original path is occupied, it is skipped
\* with "original location occupied"; in both cases no file changes, and the
\* loop goes on to the operations left.
C10_RollbackNeverOverwrites ==
    [][RollbackPass =>
          LET op == Head(todo)
              r == log'.operations[Len(log.operations) + 1]
          IN  /\ pc' = "rolling"
              /\ todo' = Tail(todo)
              /\ Len(log'.operations) = Len(log.operations) + 1
              /\ op.target \notin DOMAIN fs =>
                    /\ r.status = "skipped"
                    /\ r.reason = "file not found at target location"
                    /\ fs' = fs
              /\ (op.target \in DOMAIN fs /\ op.source \in DOMAIN fs) =>
                    /\ r.status = "skipped"
                    /\ r.reason = "original location occupied"
                    /\ fs' = fs]_vars

C10_Witness ==
    /\ RollbackRan
    /\ ~run.dry_run
    /\ Len(log.operations) = 2
    /\ log.operations[1].reason = "original location occupied"
    /\ log.operations[2].status = "success"

\* A rollback through main that went past the test of the log has ended, and
\* nothing ran since.
RollbackMainEnded ==
    /\ pc = "idle"
    /\ run.kind = "rollback"
    /\ run.entry = "main"
    /\ log.executed_at = runs

\* C11: a rollback through main that processed the log, with or without the
\* cleanup pass and whatever the target tree is like, has written its
\* rollback log, and its exit status is 1 exactly when an operation of the
\* rollback failed.
C11_CleanupNeverFailsRollback ==
    RollbackMainEnded =>
        /\ rbLogFile = log
        /\ exit = IF log.stats.failed = 0 THEN "0" ELSE "1"

\* C12: a rollback through main on the log of a dry run ends at once with
\* exit status 0: no operation is processed, the files and the directories
\* are as they were, and no rollback log is written.
C12_DryRunLogRejected ==
    (/\ pc \in {"idle", "rolling"}
     /\ run.kind = "rollback"
     /\ run.entry = "main"
     /\ logFile.dry_run
     /\ trail # <<>>
     /\ trail[Len(trail)] \in RollbackTags \cup {"rollback_refused", "apply_dry"}) =>
        /\ pc = "idle"
        /\ exit = "0"
        /\ log = NoLog
        /\ Snapshot = pre
        /\ rbLogFile.executed_at # runs
        /\ trail[Len(trail)] = "rollback_refused"

C12_Witness ==
    /\ pc = "idle"
    /\ run.kind = "rollback"
    /\ run.entry = "main"
    /\ run.cleanup
    /\ ~run.dry_run
    /\ logFile.dry_run
    /\ HasResult(logFile, "dry_run", "")
    /\ trail[Len(trail)] = "rollback_refused"
    /\ \E d \in EmptyDirs(fs, tdirs) : TRUE

\* C13: when the source of the operation apply reaches does not exist, the
\* operation is recorded as skipped with "source not found" and counted as
\* skipped only, no file or directory changes, and the loop goes on; and an
\* apply of a plan of one operation whose source was gone when it started
\* writes a log with stats success 0, failed 0, skipped 1.
C13_SourceNotFoundSkipped ==
    [][/\ (ApplyPass /\ plan[idx].source \notin DOMAIN fs) =>
             /\ Len(log'.operations) = idx
             /\ log'.operations[idx].source = plan[idx].source
             /\ log'.operations[idx].status = "skipped"
             /\ log'.operations[idx].reason = "source not found"
             /\ log'.stats = [log.stats EXCEPT !.skipped = @ + 1]
             /\ disk' = disk
             /\ pc' = "applying"
       /\ (/\ pc = "applying"
           /\ pc' = "idle"
           /\ Len(plan) = 1
           /\ plan[1].source \notin DOMAIN pre.fs) =>
             /\ logFile'.executed_at = runs
             /\ logFile'.stats = [success |-> 0, failed |-> 0, skipped |-> 1]]_vars

C13_Witness ==
    /\ RealApplyEnded
    /\ Len(logFile.operations) = 2
    /\ logFile.operations[1].status = "skipped"
    /\ logFile.operations[1].reason = "source not found"
    /\ logFile.operations[1].target \notin DOMAIN fs
    /\ logFile.operations[2].status = "success"

\* C14: an apply that has ended returned a nonzero exit status exactly when
\* the execution log it wrote counts a failed operation.
C14_ExitNonzeroIffFailed ==
    (pc = "idle" /\ run.kind = "apply" /\ log.executed_at = runs) =>
        (exit # "0" <=> (logFile.executed_at = runs /\ logFile.stats.failed > 0))

PlanMade == pc \notin {"start", "scanned"}

\* C15: the destination of every operation is in the directory of its
\* category; its name is the name of the file when no file was at that path
\* when the plan was made, and otherwise stem_N.suffix for the lowest N >= 1
\* such that no file was at that path.
C15_LowestUnusedSuffix ==
    PlanMade =>
        \A i \in 1..Len(plan) :
            LET op == plan[i]
                n == op.source.name
                Suffixed(k) == [n EXCEPT !.ctr = Append(n.ctr, k)]
                Used(m) == PathOf(op.category, m) \in DOMAIN planFs
            IN  /\ op.target.dir = op.category
                /\ op.category = get_category(n.ext)
                /\ IF ~Used(n) THEN op.target.name = n
                   ELSE \E N \in 1..(Cardinality(DOMAIN planFs) + 1) :
                           /\ op.target.name = Suffixed(N)
                           /\ ~Used(Suffixed(N))
                           /\ \A M \in 1..(N - 1) : Used(Suffixed(M))

C15_Witness ==
    /\ PlanMade
    /\ \E i, j \in 1..Len(plan) :
          /\ plan[i].source.name = Name("a", <<>>, ".pdf")
          /\ plan[i].target = PathOf("Documents", Name("a", <<2>>, ".pdf"))
          /\ plan[j].source.name = Name("b", <<>>, ".JPG")
          /\ plan[j].target = PathOf("Images", Name("b", <<>>, ".JPG"))

ScanCategories == { CategoryOrder[i] : i \in 1..Len(CategoryOrder) }

CategoryIndex(c) == CHOOSE i \in 1..Len(CategoryOrder) : CategoryOrder[i] = c

\* C16: the plan has as many operations as the scan has file records, which
\* is the number of files of the source directory; the operations of one
\* category are the file records of that category in the order of the scan,
\* one each; and the operations come in the order of the categories.
C16_OneOperationPerFileRecord ==
    PlanMade =>
        /\ Len(plan) = Cardinality({ <<c, k>> \in ScanCategories \X (1..MaxFiles + 1) :
                                        k <= Len(scan[c]) })
        /\ Len(plan) = Cardinality({ p \in DOMAIN planFs : p.dir = SourceDir })
        /\ \A c \in ScanCategories :
              LET ops == SelectSeq(plan, LAMBDA op : op.category = c)
              IN  /\ Len(ops) = Len(scan[c])
                  /\ \A k \in 1..Len(ops) :
                        /\ ops[k].source = scan[c][k].path
                        /\ ops[k].size = scan[c][k].size
        /\ \A i, j \in 1..Len(plan) :
              i < j => CategoryIndex(plan[i].category) <= CategoryIndex(plan[j].category)

C16_Witness ==
    /\ PlanMade
    /\ Len(plan) = 2
    /\ plan[1].category = "Documents"
    /\ plan[2].category = "Images"
    /\ scan["Videos"] = <<>>

\* C17: with --verify-hash and a checksum in the operation, a pass of apply
\* that moved the file records success with hash_verified true or false,
\* false whenever the content at the destination does not have the checksum
\* of the operation; either way the operation is counted in stats.success
\* only, the file is at the destination, and the loop goes on; hash_verified
\* false is never on a result of another status; and an apply with no failed
\* operation writes its log and returns 0, whatever the checksums said.
C17_HashMismatchIsWarningOnly ==
    [][/\ (/\ ApplyPass
           /\ run.verify_hash
           /\ plan[idx].sha256 # NoHash
           /\ plan[idx].source \in DOMAIN fs
           /\ plan[idx].source \notin DOMAIN fs') =>
             LET op == plan[idx]
                 r == log'.operations[idx]
             IN  /\ r.status = "success"
                 /\ r.hash_verified \in {"true", "false"}
                 /\ op.target \in DOMAIN fs'
                 /\ fs'[op.target] = fs[op.source]
                 /\ compute_file_hash(fs', op.target, TRUE) # op.sha256 =>
                       r.hash_verified = "false"
                 /\ r.hash_verified = "true" =>
                       compute_file_hash(fs', op.target, TRUE) = op.sha256
                 /\ log'.stats = [log.stats EXCEPT !.success = @ + 1]
                 /\ pc' = "applying"
       /\ (ApplyPass /\ log'.operations[idx].hash_verified # "unset") =>
             /\ log'.operations[idx].status = "success"
             /\ run.verify_hash
             /\ ~run.dry_run
       /\ (pc = "applying" /\ pc' = "idle" /\ log.stats.failed = 0) =>
             /\ logFile' = log
             /\ exit' = "0"]_vars

C17_Witness ==
    /\ RealApplyEnded
    /\ run.verify_hash
    /\ exit = "0"
    /\ Len(logFile.operations) = 2
    /\ logFile.operations[1].status = "success"
    /\ logFile.operations[1].hash_verified = "false"
    /\ logFile.operations[1].target \in DOMAIN fs
    /\ logFile.operations[2].status = "success"
    /\ logFile.operations[2].hash_verified = "true"
    /\ logFile.stats = [success |-> 2, failed |-> 0, skipped |-> 0]

\* C18: while a shutil.move of apply or of rollback is under way, and after
\* the process was terminated inside it, the whole file is at the source or
\* at the destination (or at both); and a step that removes the source
\* leaves the whole file at the destination.
C18_MoveNeverLosesData ==
    [][/\ mv' # NoMove =>
             \/ (mv'.source \in DOMAIN fs' /\ fs'[mv'.source] = mv'.file)
             \/ (mv'.target \in DOMAIN fs' /\ fs'[mv'.target] = mv'.file)
       /\ (mv # NoMove /\ mv.source \in DOMAIN fs /\ mv.source \notin DOMAIN fs') =>
             (mv.target \in DOMAIN fs' /\ fs'[mv.target] = mv.file)]_vars

C18_Witness ==
    /\ pc = "killed"
    /\ run.kind = "rollback"
    /\ mv.stage = "unlink"
    /\ mv.source \in DOMAIN fs
    /\ mv.target \in DOMAIN fs
    /\ fs[mv.source] = mv.file
    /\ fs[mv.target] = mv.file

\* C19: the step that ends a rollback, cleanup pass included, changes no
\* file, and every entry under the target base that it removes is a
\* directory, holds no file, and is the category directory of an operation
\* the rollback processed; every other entry stays as it is.
C19_CleanupRemovesOnlyEmptyCategoryDirs ==
    [][(pc = "rolling" /\ pc' = "idle") =>
          /\ fs' = fs
          /\ DOMAIN tdirs' \subseteq DOMAIN tdirs
          /\ \A d \in DOMAIN tdirs' : tdirs'[d] = tdirs[d]
          /\ \A d \in DOMAIN tdirs \ DOMAIN tdirs' :
                /\ tdirs[d] = "dir"
                /\ \A p \in DOMAIN fs : p.dir # d
                /\ \E k \in 1..Len(log.operations) : log.operations[k].source.dir = d]_vars

\* The log of a dry-run apply of the plan started from the filesystem the
\* running invocation started from.
DryRunOfPre == apply_plan(pre.fs, pre.tdirs, NewLog(runs, TRUE), plan, TRUE, FALSE)

\* C20: when a real apply in which no move failed has ended, the log of a
\* dry-run apply of the same plan from the same filesystem has dry_run
\* exactly on the operations the real log has success on, and its skipped
\* operations are the skipped operations of the real log, with the same
\* reasons.
C20_DryRunIsFaithfulPreview ==
    (RealApplyEnded /\ logFile.stats.failed = 0) =>
        /\ Len(DryRunOfPre.operations) = Len(logFile.operations)
        /\ \A i \in 1..Len(logFile.operations) :
              LET dry == DryRunOfPre.operations[i]
                  real == logFile.operations[i]
              IN  /\ dry.status = "dry_run" <=> real.status = "success"
                  /\ dry.status = "skipped" <=> real.status = "skipped"
                  /\ dry.status = "skipped" => dry.reason = real.reason

\* The destinations of the success operations of the execution log.
SuccessDestinations == { logFile.operations[i].target : i \in SuccessIndices }

\* C21: while rollback_operations runs and after it has returned, every
\* file that was not at the destination of a success operation of the log
\* when the rollback started is at the same path with the same content; and
\* in a dry run the files, the entries under the target base and the target
\* base itself are as they were.
C21_RollbackChangesOnlyMovedFiles ==
    (RollbackRan /\ (pc = "rolling" \/ trail[Len(trail)] \in RollbackTags)) =>
        /\ \A p \in DOMAIN pre.fs \ SuccessDestinations :
              /\ p \in DOMAIN fs
              /\ fs[p] = pre.fs[p]
        /\ run.dry_run => Snapshot = pre

C21_Witness ==
    /\ RollbackRan
    /\ pc = "idle"
    /\ ~run.dry_run
    /\ trail[Len(trail)] \in RollbackTags
    /\ HasResult(log, "success", "")
    /\ HasResult(logFile, "skipped", "target exists")
    /\ \E p \in DOMAIN pre.fs \ SuccessDestinations : p.dir # SourceDir
    /\ \E p \in DOMAIN pre.fs \ SuccessDestinations : p.dir = SourceDir
    /\ fs # pre.fs

====
